---- MODULE Spec2Model ----
(***************************************************************************)
(* EnergyDrum (Plugins/EnergyDrum/src/AuroraPlugin.cpp): the light-source  *)
(* pool (addSource, removeSource, diffuseSources), the palette             *)
(* interpolation (getRGB) and the per-frame driver (getPluginFrame).       *)
(*                                                                         *)
(* Fixed point.  The floats the program compares are intensity, speed and  *)
(* diffusion_age; every value they take here is a multiple of 0.1, so they *)
(* are kept in tenths: 0.7 is 7, 1.5 is 15, MAX_DIFFUSION_AGE 15.0 is 150. *)
(* A colour index is a fraction num / DrawDen.  The blending factor of     *)
(* renderPanel is kept in thousandths (FRACTION_COLOUR_TO_KEEP 0.05 is 50) *)
(* and a distance is the integer part of the float distance.               *)
(***************************************************************************)
EXTENDS Integers, Sequences, FiniteSets, TLC

VARIABLES
    nPanels,          \* layoutData->nPanels, fixed by initPlugin
    nColours,         \* number of palette colours, fixed by initPlugin
    sources,          \* sources[0 .. nSources-1], as a sequence (index i is i+1)
    r,                \* static int r of addSource: the active panel index
    count,            \* static int count of addSource: calls served by r
    maxBinIndexSum,   \* static int maxBinIndexSum of getPluginFrame
    n,                \* static int n of getPluginFrame
    frames,           \* the frame buffer of the last getPluginFrame call
    nFrames,          \* *nFrames of the last getPluginFrame call
    crashed,          \* the process died on an out-of-bounds panel read
    calls,            \* addSource calls made, where a specification bounds them
    last              \* what the last call did (history, not program state)

vars == <<nPanels, nColours, sources, r, count, maxBinIndexSum, n, frames,
          nFrames, crashed, calls, last>>

----------------------------------------------------------------------------
(* Program constants *)

MAX_SOURCES == 15
ENERGY_THRESHOLD == 50000
MAX_DIFFUSION_AGE == 150
MIN_SIMULTANEOUS_COLOURS == 2
N_FFT_BINS == 32
BEAT_COUNT == 8
TRANSITION_TIME == 1
BeatIntensity == 10
BeatSpeed == 15
OnsetIntensity == 7
OnsetSpeed == 8
MinBeatSpeed == 2
TempoDivisor == 50
DefaultGrey == 128
BASE_COLOUR_R == 0
BASE_COLOUR_G == 0
BASE_COLOUR_B == 0
FRACTION_COLOUR_TO_KEEP == 50

(* Bounds of the model *)

DrawDen == 4        \* drand48() returns k / DrawDen, k in 0 .. DrawDen-1
MaxPanels == 2      \* Spec: layouts of 1 .. MaxPanels panels
AgeBound == 150     \* SpecAge: diffuseSources is not called once an age is past this
PoolAgeBound == 0   \* the same, in the specifications that are not about ageing
PoolPanels == 3     \* SpecPool: the layout
AgePanels == 4      \* SpecAge: the layout
CapPanels == 48     \* SpecCap: the layout
CapFill == 14       \* SpecCap: sources in the pool when it starts
TickPanels == 3     \* SpecTick: the layout
TickAgeBound == 23  \* SpecTick: no tick once an age is past this
MaxQuiet == 2       \* SpecTick: ticks in a row without a beat
MaxCapCalls == 6    \* SpecCap: addSource calls made from there
FadePanels == 4     \* SpecFade: the layout
FadeFill == 3       \* SpecFade: sources in the pool when it starts
MaxFadeCalls == 2   \* SpecFade: addSource calls made from there
MaxRotCalls == 9    \* SpecRot: addSource calls made
ShowPanels == 3     \* SpecShow: the layout
ShowAgeBound == 225 \* SpecShow: no tick once an age is past this
MaxShowCalls == 3   \* SpecShow: direct addSource calls made
RunPanels == 4      \* SpecRun: the layout
RunAgeBound == 195  \* SpecRun: no tick once an age is past this
RunQuiet == 14      \* SpecRun: ticks in a row without a beat
BusyPanels == 20    \* SpecBusy: the layout
BusyFill == 13      \* SpecBusy: the sources of the first state
BusyTicks == 3      \* SpecBusy: ticks after the first state, a beat the last

----------------------------------------------------------------------------
(* Layout and palette: data the host hands to initPlugin *)

\* Centroid of panel i (0-based): a strip of triangles, all centroids distinct.
Centroid(i) == <<75 * i, IF i % 2 = 0 THEN 0 ELSE 43>>

\* Outcomes of reading layoutData->panels[idx] with idx outside the layout
\* (undefined behaviour): the read yields some position that is no centroid
\* of the layout, or the process dies.
JunkPos == <<-1000, -1000>>
OOBOutcomes == {"junk", "crash"}

\* sources[i].x == x && sources[i].y == y
PosEq(p, q) == p = q

FullPalette ==
    <<[R |-> 255, G |-> 0, B |-> 0], [R |-> 0, G |-> 200, B |-> 55],
      [R |-> 15, G |-> 25, B |-> 235]>>

paletteColours == SubSeq(FullPalette, 1, nColours)

----------------------------------------------------------------------------
(* Conversions *)

\* (int)(num / den) for den > 0: C truncates toward zero
Trunc(num, den) == IF num >= 0 THEN num \div den ELSE -((-num) \div den)

\* r = (int)(drand48() * layoutData->nPanels - 1), drand48() = k / DrawDen
PickPanel(k, np) == Trunc(k * np - DrawDen, DrawDen)

\* c *= intensity on an int channel: multiplied as float, truncated back
Scale(c, intensity) == Trunc(c * intensity, 10)

Mix(c1, c2, fnum) == Trunc((DrawDen - fnum) * c1 + fnum * c2, DrawDen)

\* getRGB(colour, &R, &G, &B) with colour = num / DrawDen
getRGB(num, pal) ==
    LET nc == Len(pal)
        idx == Trunc(num, DrawDen)
        fnum == num - idx * DrawDen
    IN  IF nc = 0 THEN [R |-> DefaultGrey, G |-> DefaultGrey, B |-> DefaultGrey]
        ELSE IF nc = 1 THEN pal[1]
        ELSE IF num <= 0 THEN pal[1]
        ELSE IF idx < nc - 1
             THEN [R |-> Mix(pal[idx + 1].R, pal[idx + 2].R, fnum),
                   G |-> Mix(pal[idx + 1].G, pal[idx + 2].G, fnum),
                   B |-> Mix(pal[idx + 1].B, pal[idx + 2].B, fnum)]
        ELSE pal[nc]

----------------------------------------------------------------------------
(* The pool *)

nSources == Len(sources)

\* removeSource(idx), idx 0-based
removeSource(srcs, idx) ==
    SubSeq(srcs, 1, idx) \o SubSeq(srcs, idx + 2, Len(srcs))

\* mutant of EvictIfFull: the capacity test is off by one
EvictIfFull_OffByOne(srcs) ==
    IF Len(srcs) > MAX_SOURCES THEN removeSource(srcs, 0) ELSE srcs

\* addSource lines 203-206: at capacity, drop sources[0]
EvictIfFull(srcs) ==
    IF Len(srcs) >= MAX_SOURCES THEN removeSource(srcs, 0) ELSE srcs

\* mutant of FindAt: the scan starts at index 1 and misses sources[0]
FindAt_SkipFirst(srcs, pos) ==
    LET hits == {i \in 2..Len(srcs) : PosEq(srcs[i].pos, pos)}
    IN  IF hits = {} THEN 0 ELSE CHOOSE i \in hits : \A j \in hits : i <= j

\* addSource lines 210-217: the first source at exactly (x, y); 0 when none
FindAt(srcs, pos) ==
    LET hits == {i \in 1..Len(srcs) : PosEq(srcs[i].pos, pos)}
    IN  IF hits = {} THEN 0 ELSE CHOOSE i \in hits : \A j \in hits : i <= j

\* mutant of MergeAt: the merge also rescales the stored colour
MergeAt_Rescale(srcs, i, intensity, speed) ==
    [srcs EXCEPT ![i] = [@ EXCEPT !.diffusion_age = 0,
                                   !.intensity = intensity,
                                   !.speed = speed,
                                   !.R = Scale(@, intensity),
                                   !.G = Scale(@, intensity),
                                   !.B = Scale(@, intensity)]]

\* addSource lines 212-214: the merge
MergeAt(srcs, i, intensity, speed) ==
    [srcs EXCEPT ![i] = [@ EXCEPT !.diffusion_age = 0,
                                   !.intensity = intensity,
                                   !.speed = speed]]

\* addSource lines 221-225: scan down from the end to the first source
\* that is not stronger; the result is the number of sources kept in front
InsertIndex(srcs, intensity) ==
    LET stop == {i \in 1..Len(srcs) : intensity >= srcs[i].intensity}
    IN  IF stop = {} THEN 0 ELSE CHOOSE i \in stop : \A j \in stop : j <= i

\* addSource lines 227-238: shift up and store
InsertAt(srcs, i, s) == SubSeq(srcs, 1, i) \o <<s>> \o SubSeq(srcs, i + 1, Len(srcs))

NewSource(pos, rgb, intensity, speed, energy) ==
    [pos |-> pos, diffusion_age |-> 0,
     R |-> Scale(rgb.R, intensity), G |-> Scale(rgb.G, intensity),
     B |-> Scale(rgb.B, intensity),
     intensity |-> intensity, speed |-> speed, energy |-> energy]

\* addSource lines 188-192: the rotation; <<r, count, drew>> after it
Rotate(r0, count0, k, np) ==
    IF count0 + 1 >= BEAT_COUNT
    THEN [r |-> PickPanel(k, np), count |-> 0, drew |-> TRUE]
    ELSE [r |-> r0, count |-> count0 + 1, drew |-> FALSE]

\* addSource lines 239-241: an energetic insert forces the counter
ForceCount(count0, energy) ==
    IF energy >= ENERGY_THRESHOLD THEN BEAT_COUNT ELSE count0

\* addSource as a function of the state it reads: st = [sources, r, count],
\* colour = num / DrawDen, k the drand48 draw, oob the out-of-bounds outcome
addSource(st, np, pal, num, intensity, speed, energy, k, oob) ==
    LET inLayout == st.r \in 0..(np - 1)
        pos == IF inLayout THEN Centroid(st.r) ELSE JunkPos
        rot == Rotate(st.r, st.count, k, np)
        rgb == getRGB(num, pal)
        s1 == EvictIfFull(st.sources)
        hit == FindAt(s1, pos)
        i == InsertIndex(s1, intensity)
    IN  IF ~inLayout /\ oob = "crash"
        THEN [sources |-> st.sources, r |-> st.r, count |-> st.count,
              crashed |-> TRUE, kind |-> "crash", evicted |-> FALSE,
              drew |-> FALSE]
        ELSE IF hit # 0
        THEN [sources |-> MergeAt(s1, hit, intensity, speed),
              r |-> rot.r, count |-> rot.count,
              crashed |-> FALSE, kind |-> "merge",
              evicted |-> Len(s1) < Len(st.sources),
              drew |-> rot.drew]
        ELSE [sources |-> InsertAt(s1, i, NewSource(pos, rgb, intensity, speed, energy)),
              r |-> rot.r, count |-> ForceCount(rot.count, energy),
              crashed |-> FALSE, kind |-> "insert",
              evicted |-> Len(s1) < Len(st.sources),
              drew |-> rot.drew]

\* mutant of AgeAll: every source is aged by the speed of sources[0]
AgeAll_FirstSpeed(srcs) ==
    [i \in 1..Len(srcs) |-> [srcs[i] EXCEPT !.diffusion_age = @ + srcs[1].speed]]

\* diffuseSources lines 335-337
AgeAll(srcs) ==
    [i \in 1..Len(srcs) |-> [srcs[i] EXCEPT !.diffusion_age = @ + srcs[i].speed]]

Expired(s) == s.diffusion_age > MAX_DIFFUSION_AGE

\* diffuseSources lines 339-346: the population is tested once, before the
\* loop; the loop then removes every expired source, re-checking the index
\* a removal shifted down
\* mutant of PruneLoop: the index is not stepped back after a removal
RECURSIVE PruneLoop_SkipShifted(_, _)
PruneLoop_SkipShifted(srcs, i) ==
    IF i >= Len(srcs) THEN srcs
    ELSE IF Expired(srcs[i + 1]) THEN PruneLoop_SkipShifted(removeSource(srcs, i), i + 1)
    ELSE PruneLoop_SkipShifted(srcs, i + 1)

RECURSIVE PruneLoop(_, _)
PruneLoop(srcs, i) ==
    IF i >= Len(srcs) THEN srcs
    ELSE IF Expired(srcs[i + 1]) THEN PruneLoop(removeSource(srcs, i), i)
    ELSE PruneLoop(srcs, i + 1)

\* mutant of Prune: the population floor is not tested
Prune_NoFloor(srcs) == PruneLoop(srcs, 0)

Prune(srcs) ==
    IF Len(srcs) > MIN_SIMULTANEOUS_COLOURS THEN PruneLoop(srcs, 0) ELSE srcs

diffuseSources(srcs) == Prune(AgeAll(srcs))

----------------------------------------------------------------------------
(* The renderer *)

\* the integer part of sqrt(x), by bisection on lo <= sqrt(x) < hi
RECURSIVE SqrtBetween(_, _, _)
SqrtBetween(x, lo, hi) ==
    IF hi - lo <= 1 THEN lo
    ELSE LET mid == (lo + hi) \div 2
         IN  IF mid * mid <= x THEN SqrtBetween(x, mid, hi)
             ELSE SqrtBetween(x, lo, mid)

\* distance(x1, y1, x2, y2), lines 117-121
distance(p, q) ==
    LET dx == q[1] - p[1]
        dy == q[2] - p[2]
        ax == IF dx < 0 THEN -dx ELSE dx
        ay == IF dy < 0 THEN -dy ELSE dy
    IN  SqrtBetween(dx * dx + dy * dy, 0, ax + ay + 1)

\* RGBtoHSV of ColorUtils: hue in degrees 0 .. 359, saturation and value in
\* percent of the largest channel and of 255
RGBtoHSV(rgb) ==
    LET max == IF rgb.R >= rgb.G /\ rgb.R >= rgb.B THEN rgb.R
               ELSE IF rgb.G >= rgb.B THEN rgb.G ELSE rgb.B
        min == IF rgb.R <= rgb.G /\ rgb.R <= rgb.B THEN rgb.R
               ELSE IF rgb.G <= rgb.B THEN rgb.G ELSE rgb.B
        delta == max - min
        raw == IF delta = 0 THEN 0
               ELSE IF max = rgb.R THEN Trunc(60 * (rgb.G - rgb.B), delta)
               ELSE IF max = rgb.G THEN Trunc(60 * (rgb.B - rgb.R), delta) + 120
               ELSE Trunc(60 * (rgb.R - rgb.G), delta) + 240
    IN  [H |-> (raw + 360) % 360,
         S |-> IF max = 0 THEN 0 ELSE (delta * 100) \div max,
         V |-> (max * 100) \div 255]

\* HSVtoRGB of ColorUtils: the six hue sectors of 60 degrees
HSVtoRGB(hsv) ==
    LET c == (hsv.V * hsv.S) \div 100
        hm == hsv.H % 120
        x == (c * (60 - (IF hm >= 60 THEN hm - 60 ELSE 60 - hm))) \div 60
        m == hsv.V - c
        sector == (hsv.H \div 60) % 6
        rgb1 == IF sector = 0 THEN <<c, x, 0>>
                ELSE IF sector = 1 THEN <<x, c, 0>>
                ELSE IF sector = 2 THEN <<0, c, x>>
                ELSE IF sector = 3 THEN <<0, x, c>>
                ELSE IF sector = 4 THEN <<x, 0, c>>
                ELSE <<c, 0, x>>
    IN  [R |-> ((rgb1[1] + m) * 255) \div 100,
         G |-> ((rgb1[2] + m) * 255) \div 100,
         B |-> ((rgb1[3] + m) * 255) \div 100]

\* renderPanel lines 262-289: the pull of source s at distance d, in
\* thousandths
Factor(s, d) ==
    LET d2raw == d * 15 - s.diffusion_age * 20
        d2 == IF d2raw < 0 THEN 0 ELSE d2raw
        near == 1000000 \div (d2 * 2 + 1000)
        byDistance ==
            IF s.energy >= ENERGY_THRESHOLD
            THEN (IF near > 1000 THEN 1000 ELSE IF near < 0 THEN 0 ELSE near)
            ELSE 1000000 \div (d * 8 + 1000)
        byAge ==
            IF s.diffusion_age >= MAX_DIFFUSION_AGE THEN 0
            ELSE (byDistance * (MAX_DIFFUSION_AGE - s.diffusion_age))
                     \div MAX_DIFFUSION_AGE
    IN  IF byAge < FRACTION_COLOUR_TO_KEEP THEN FRACTION_COLOUR_TO_KEEP ELSE byAge

\* R = R * (1.0 - factor) + sources[i].R * factor, then (int)R
Blend(c, sc, factor) == Trunc(c * (1000 - factor) + sc * factor, 1000)

\* renderPanel lines 259-306: source s folded into the working colour rgb
FoldSource(rgb, s, panelPos) ==
    LET d == distance(panelPos, s.pos)
        factor == Factor(s, d)
        hsv == RGBtoHSV([R |-> Blend(rgb.R, s.R, factor),
                         G |-> Blend(rgb.G, s.G, factor),
                         B |-> Blend(rgb.B, s.B, factor)])
    IN  HSVtoRGB([H |-> (hsv.H + d \div 10) % 360,
                  S |-> hsv.S,
                  V |-> (hsv.V + 10) % 360])

RECURSIVE RenderLoop(_, _, _, _)
RenderLoop(rgb, srcs, i, panelPos) ==
    IF i >= Len(srcs) THEN rgb
    ELSE LET folded == FoldSource(rgb, srcs[i + 1], panelPos)
         IN  CASE folded \in [R : Int, G : Int, B : Int] ->   \* int R, G, B
                  RenderLoop(folded, srcs, i + 1, panelPos)

\* mutant of Clamp: the channel is returned as computed
Clamp_None(c) == c

\* renderPanel lines 314-322
Clamp(c) == IF c > 255 THEN 255 ELSE c

\* renderPanel(panel, &R, &G, &B) over the pool srcs
renderPanel(panelPos, srcs) ==
    LET rgb == RenderLoop([R |-> BASE_COLOUR_R, G |-> BASE_COLOUR_G,
                           B |-> BASE_COLOUR_B], srcs, 0, panelPos)
    IN  [R |-> Clamp(rgb.R), G |-> Clamp(rgb.G), B |-> Clamp(rgb.B)]

----------------------------------------------------------------------------
(* The frame driver *)

\* getPluginFrame lines 373-381: the first bin holding the largest value (the
\* comparison is strict and starts from 0, so all-zero bins give index 0)
RECURSIVE MaxBinScan(_, _, _, _)
MaxBinScan(bins, i, maxBin, maxBinIndex) ==
    IF i >= Len(bins) THEN maxBinIndex
    ELSE IF bins[i + 1] > maxBin THEN MaxBinScan(bins, i + 1, bins[i + 1], i)
    ELSE MaxBinScan(bins, i + 1, maxBin, maxBinIndex)

MaxBinIndex(bins) == MaxBinScan(bins, 0, 0, 0)

\* mutant of Accumulate: a beat resets the count and keeps the sum
Accumulate_KeepSum(sum0, n0, bin, isBeat) ==
    LET sum1 == sum0 + bin
        n1 == n0 + 1
    IN  [avg |-> sum1 \div n1,
         sum |-> sum1,
         n |-> IF isBeat THEN 0 ELSE n1]

\* getPluginFrame lines 383-384 and 393-395: the dominant bin of the tick is
\* added to the running sum and the count incremented; a beat takes the
\* average (int / int) and resets both.  avg is read on a beat only.
Accumulate(sum0, n0, bin, isBeat) ==
    LET sum1 == sum0 + bin
        n1 == n0 + 1
    IN  [avg |-> sum1 \div n1,
         sum |-> IF isBeat THEN 0 ELSE sum1,
         n |-> IF isBeat THEN 0 ELSE n1]

\* getPluginFrame line 396: int colour = maxBinIndex * nColours / (N_FFT_BINS / 4)
BeatColour(avgBin, nc) == (avgBin * nc) \div (N_FFT_BINS \div 4)

\* getPluginFrame lines 397-400: the local variable speed, in tenths (exact
\* for the tempos of the model, which are multiples of 5)
TempoSpeed(tempo) ==
    LET speed == (tempo * 10) \div TempoDivisor
    IN  IF speed < MinBeatSpeed THEN MinBeatSpeed ELSE speed

\* getPluginFrame line 403: the speed handed to addSource on a beat
BeatSpeedArg(tempo) == BeatSpeed

PanelId(i) == 100 + i

\* getPluginFrame lines 409-414: the frame of panel i over the pool srcs
FrameOf(i, srcs) ==
    LET rgb == renderPanel(Centroid(i), srcs)
    IN  [panelId |-> PanelId(i), r |-> rgb.R, g |-> rgb.G, b |-> rgb.B,
         transTime |-> TRANSITION_TIME]

\* mutant of Frames: the pool is aged before the panels are rendered
Frames_AfterAgeing(srcs, np) ==
    [i \in 1..np |-> FrameOf(i - 1, AgeAll(srcs))]

\* getPluginFrame lines 408-415: every panel, in layout order
Frames(srcs, np) == [i \in 1..np |-> FrameOf(i - 1, srcs)]

----------------------------------------------------------------------------
(* State after initPlugin, and the calls *)

NoCall ==
    [op |-> "init", kind |-> "none", evicted |-> FALSE, pruned |-> 0,
     intensity |-> 0, speed |-> 0, energy |-> 0,
     beat |-> FALSE, tempo |-> 0, avg |-> 0]

InitWith(np, nc) ==
    /\ nPanels = np
    /\ nColours = nc
    /\ sources = <<>>
    /\ r = 0
    /\ count = 0
    /\ maxBinIndexSum = 0
    /\ n = 0
    /\ frames = <<>>
    /\ nFrames = 0
    /\ crashed = FALSE
    /\ calls = 0
    /\ last = NoCall

Init == \E np \in 1..MaxPanels : InitWith(np, 2)

\* Pools near capacity.  CapFill energetic inserts on the panels
\* 0 .. CapFill-1 leave a sorted pool: the weak sources, then the strong
\* ones, every age 0.  Calls that merge without changing anything then bring
\* r to any panel of the pool and the counter to any value below BEAT_COUNT;
\* the counter is BEAT_COUNT right after an energetic insert.
CapTarget == PickPanel(1, CapPanels)
CapLast == CapFill - 1
CapWeakSets == {{}, {CapTarget}, {CapTarget, CapLast}, 0..CapLast}

CapSource(p, weak) ==
    IF p \in weak
    THEN NewSource(Centroid(p), getRGB(2, SubSeq(FullPalette, 1, 2)),
                   OnsetIntensity, OnsetSpeed, ENERGY_THRESHOLD)
    ELSE NewSource(Centroid(p), getRGB(2, SubSeq(FullPalette, 1, 2)),
                   BeatIntensity, BeatSpeed, ENERGY_THRESHOLD)

RECURSIVE PanelsIn(_, _, _)
PanelsIn(from, to, S) ==
    IF from > to THEN <<>>
    ELSE IF from \in S THEN <<from>> \o PanelsIn(from + 1, to, S)
    ELSE PanelsIn(from + 1, to, S)

CapPool(weak) ==
    LET ps == PanelsIn(0, CapLast, weak) \o PanelsIn(0, CapLast, (0..CapLast) \ weak)
    IN  [i \in 1..CapFill |-> CapSource(ps[i], weak)]

InitCap ==
    /\ nPanels = CapPanels
    /\ nColours = 2
    /\ \E weak \in CapWeakSets : sources = CapPool(weak)
    /\ r \in {CapTarget, CapLast}
    /\ count \in {0, BEAT_COUNT - 1, BEAT_COUNT}
    /\ maxBinIndexSum = 0
    /\ n = 0
    /\ frames = <<>>
    /\ nFrames = 0
    /\ crashed = FALSE
    /\ calls = 0
    /\ last = NoCall

\* one call of addSource(colour, intensity, speed, energy)
AddSource(num, intensity, speed, energy, k, oob, limit) ==
    LET res == addSource([sources |-> sources, r |-> r, count |-> count],
                         nPanels, paletteColours, num, intensity, speed, energy, k, oob)
    IN  /\ ~crashed
        /\ limit > 0 => calls < limit
        /\ calls' = IF limit > 0 THEN calls + 1 ELSE calls
        /\ sources' = res.sources
        /\ r' = res.r
        /\ count' = res.count
        /\ crashed' = res.crashed
        /\ last' = [op |-> "addSource", kind |-> res.kind, evicted |-> res.evicted,
                    pruned |-> 0, intensity |-> intensity, speed |-> speed, energy |-> energy,
                    beat |-> FALSE, tempo |-> 0, avg |-> 0]
        /\ UNCHANGED <<nPanels, nColours, maxBinIndexSum, n, frames, nFrames>>

\* one call of diffuseSources()
DiffuseSources(bound) ==
    /\ ~crashed
    /\ \A i \in 1..Len(sources) : sources[i].diffusion_age <= bound
    /\ sources' = diffuseSources(sources)
    /\ last' = [NoCall EXCEPT !.op = "diffuseSources",
                             !.pruned = Len(sources) - Len(sources')]
    /\ UNCHANGED <<nPanels, nColours, r, count, maxBinIndexSum, n, frames,
                   nFrames, crashed, calls>>

\* one call of getPluginFrame: bins, energy, isBeat, isOnset and tempo are what
\* the feature getters return in this tick, kc and kp the drand48 draws of
\* the onset colour and of the panel
GetPluginFrame(bins, energy, isBeat, isOnset, tempo, kc, kp, oob, bound, ageBound) ==
    LET acc == Accumulate(maxBinIndexSum, n, MaxBinIndex(bins), isBeat)
        avg == acc.avg
        st == [sources |-> sources, r |-> r, count |-> count]
        res == IF isBeat
               THEN addSource(st, nPanels, paletteColours,
                              BeatColour(avg, nColours) * DrawDen,
                              BeatIntensity, BeatSpeedArg(tempo), energy, kp, oob)
               ELSE IF isOnset
               THEN addSource(st, nPanels, paletteColours, kc * (nColours - 1),
                              OnsetIntensity, OnsetSpeed, energy, kp, oob)
               ELSE [sources |-> sources, r |-> r, count |-> count,
                     crashed |-> FALSE, kind |-> "none", evicted |-> FALSE,
                     drew |-> FALSE]
        aged == diffuseSources(res.sources)
    IN  /\ ~crashed
        /\ isBeat \/ n < bound
        /\ \A i \in 1..Len(sources) : sources[i].diffusion_age <= ageBound
        /\ crashed' = res.crashed
        /\ IF res.crashed
           THEN UNCHANGED <<sources, r, count, maxBinIndexSum, n, frames, nFrames>>
           ELSE /\ maxBinIndexSum' = acc.sum
                /\ n' = acc.n
                /\ r' = res.r
                /\ count' = res.count
                /\ frames' = Frames(res.sources, nPanels)
                /\ sources' = aged
                /\ nFrames' = nPanels
        /\ last' = [op |-> "getPluginFrame", kind |-> res.kind,
                    evicted |-> res.evicted,
                    pruned |-> Len(res.sources) - Len(aged),
                    intensity |-> IF isBeat THEN BeatIntensity ELSE OnsetIntensity,
                    speed |-> IF isBeat THEN BeatSpeedArg(tempo) ELSE OnsetSpeed,
                    energy |-> energy, beat |-> isBeat,
                    tempo |-> IF isBeat THEN tempo ELSE 0,
                    avg |-> IF isBeat THEN avg ELSE 0]
        /\ UNCHANGED <<nPanels, nColours, calls>>

\* The draw is read only when the rotation fires, the out-of-bounds outcome
\* only when r is outside the layout: the other calls take one value of each.
DrawsUsed(draws) == IF count + 1 >= BEAT_COUNT THEN draws ELSE {0}
OOBUsed == IF r \in 0..(nPanels - 1) THEN {"junk"} ELSE OOBOutcomes

\* addSource calls with <<intensity, speed, energy>> drawn from args; at most
\* limit of them when limit > 0
Calls(nums, args, draws, limit) ==
    \E num \in nums, a \in args, k \in DrawsUsed(draws), oob \in OOBUsed :
        AddSource(num, a[1], a[2], a[3], k, oob, limit)

Draws == 0..(DrawDen - 1)
Low == ENERGY_THRESHOLD - 1
High == ENERGY_THRESHOLD
PoolArgs ==
    {<<OnsetIntensity, OnsetSpeed, Low>>, <<BeatIntensity, BeatSpeed, Low>>,
     <<BeatIntensity, BeatSpeed, High>>}
CapArgs ==
    {<<OnsetIntensity, OnsetSpeed, High>>, <<BeatIntensity, BeatSpeed, High>>}
\* speeds 7.5 and 16.0: the first reaches 15.0 exactly, the second passes it
AgeArgs == {<<BeatIntensity, 75, High>>, <<BeatIntensity, 160, High>>}

Next ==
    \/ Calls({2}, PoolArgs, Draws, 0)
    \/ DiffuseSources(PoolAgeBound)

Spec == Init /\ [][Next]_vars

InitPool == InitWith(PoolPanels, 2)
NextPool ==
    \/ Calls({2}, PoolArgs, 1..(DrawDen - 1), 0)
    \/ DiffuseSources(PoolAgeBound)
SpecPool == InitPool /\ [][NextPool]_vars

NextCap ==
    \/ Calls({2}, CapArgs, 1..(DrawDen - 1), MaxCapCalls)
    \/ DiffuseSources(PoolAgeBound)
SpecCap == InitCap /\ [][NextCap]_vars

InitAge == InitWith(AgePanels, 2)
NextAge ==
    \/ Calls({2}, AgeArgs, 1..(DrawDen - 1), 0)
    \/ DiffuseSources(AgeBound)
SpecAge == InitAge /\ [][NextAge]_vars

\* Pools that only age.  FadeFill inserts on the panels 0 .. FadeFill-1 with
\* no diffuseSources call in between leave every age 0; each source has the
\* beat speed 1.5 or the speed 16.0, which passes 15.0 in one call.
FadeSpeeds == {BeatSpeed, 160}

FadePool(speedOf) ==
    [i \in 1..FadeFill |->
        NewSource(Centroid(i - 1), getRGB(2, SubSeq(FullPalette, 1, 2)),
                  BeatIntensity, speedOf[i], ENERGY_THRESHOLD)]

InitFade ==
    /\ nPanels = FadePanels
    /\ nColours = 2
    /\ \E speedOf \in [1..FadeFill -> FadeSpeeds] : sources = FadePool(speedOf)
    /\ r = 0
    /\ count \in {0, BEAT_COUNT - 1}
    /\ maxBinIndexSum = 0
    /\ n = 0
    /\ frames = <<>>
    /\ nFrames = 0
    /\ crashed = FALSE
    /\ calls = 0
    /\ last = NoCall

FadeArgs == {<<BeatIntensity, s, High>> : s \in FadeSpeeds}
NextFade ==
    \/ Calls({2}, FadeArgs, 1..(DrawDen - 1), MaxFadeCalls)
    \/ DiffuseSources(AgeBound)
SpecFade == InitFade /\ [][NextFade]_vars

\* Calls that all stay below the energy threshold.  They start from the
\* state after initPlugin, or from a pool that CapFill of them, one per block
\* of BEAT_COUNT calls, have filled with strong sources on the panels
\* 0 .. CapFill-1.
RotPool ==
    [i \in 1..CapFill |->
        NewSource(Centroid(i - 1), getRGB(2, SubSeq(FullPalette, 1, 2)),
                  BeatIntensity, BeatSpeed, Low)]

InitRot ==
    /\ nPanels = CapPanels
    /\ nColours = 2
    /\ \/ sources = <<>> /\ r = 0 /\ count = 0
       \/ sources = RotPool /\ r = CapTarget /\ count \in {0, BEAT_COUNT - 1}
    /\ maxBinIndexSum = 0
    /\ n = 0
    /\ frames = <<>>
    /\ nFrames = 0
    /\ crashed = FALSE
    /\ calls = 0
    /\ last = NoCall

RotArgs == {<<OnsetIntensity, OnsetSpeed, Low>>, <<BeatIntensity, BeatSpeed, Low>>}
NextRot == Calls({2}, RotArgs, 1..(DrawDen - 1), MaxRotCalls)
SpecRot == InitRot /\ [][NextRot]_vars

\* FFT bins of a tick: silence, two equal peaks (the first one wins), a peak
\* in the last bin
Bins(peaks) == [i \in 1..N_FFT_BINS |-> IF (i - 1) \in peaks THEN 200 ELSE 0]
BinSamples == {Bins({}), Bins({12, 31}), Bins({31})}
Tempos == {0, 120}

\* What the getters return in one tick.  The tempo is read on a beat only,
\* isOnset only without a beat (the beats of the model come with an onset),
\* the energy matters only when a source is added.
TickInputs ==
    [bins : BinSamples, energy : {Low, High}, isBeat : {TRUE}, isOnset : {TRUE},
     tempo : Tempos]
    \cup [bins : BinSamples, energy : {Low, High}, isBeat : {FALSE},
          isOnset : {TRUE}, tempo : {0}]
    \cup [bins : BinSamples, energy : {Low}, isBeat : {FALSE}, isOnset : {FALSE},
          tempo : {0}]

Adds(in) == in.isBeat \/ in.isOnset

InitTick == InitWith(TickPanels, 2)
NextTick ==
    \E in \in TickInputs :
        \E kp \in (IF Adds(in) THEN DrawsUsed(1..(DrawDen - 1)) ELSE {0}),
           oob \in (IF Adds(in) THEN OOBUsed ELSE {"junk"}) :
            GetPluginFrame(in.bins, in.energy, in.isBeat, in.isOnset, in.tempo,
                           1, kp, oob, MaxQuiet, TickAgeBound)
SpecTick == InitTick /\ [][NextTick]_vars

\* Pools the renderer is shown: direct addSource calls of colour 0 with
\* intensity 1.5, whose stored red is 382, or 0.7, at speed 7.5; diffuseSources calls
\* that take a pool of 2 to 15.0 and past it; and ticks without beat or
\* onset, which render the pool and age it.
ShowArgs == {<<15, 75, High>>, <<OnsetIntensity, 75, Low>>}
ShowInputs ==
    [bins : {Bins({})}, energy : {Low}, isBeat : {FALSE}, isOnset : {FALSE},
     tempo : {0}]

InitShow == InitWith(ShowPanels, 2)
NextShow ==
    \/ Calls({0}, ShowArgs, 1..(DrawDen - 1), MaxShowCalls)
    \/ DiffuseSources(AgeBound)
    \/ \E in \in ShowInputs :
          \E kp \in (IF Adds(in) THEN DrawsUsed(1..(DrawDen - 1)) ELSE {0}) :
             GetPluginFrame(in.bins, in.energy, in.isBeat, in.isOnset, in.tempo,
                            1, kp, "junk", MaxQuiet, ShowAgeBound)
SpecShow == InitShow /\ [][NextShow]_vars

\* The running plugin: nothing but ticks, with a beat or quiet, long enough
\* for sources to pass 15.0 and to stay past it in a pool of 2.  The bins are
\* silent and every source is energetic, so that a new panel is drawn two
\* calls after each insert.
RunInputs ==
    [bins : {Bins({})}, energy : {High}, isBeat : {TRUE}, isOnset : {TRUE},
     tempo : {120}]
    \cup [bins : {Bins({})}, energy : {High}, isBeat : {FALSE}, isOnset : {FALSE},
          tempo : {0}]

InitRun == InitWith(RunPanels, 2)
NextRun ==
    \E in \in RunInputs :
        \E kp \in (IF Adds(in) THEN DrawsUsed(1..(DrawDen - 1)) ELSE {0}) :
            GetPluginFrame(in.bins, in.energy, in.isBeat, in.isOnset, in.tempo,
                           1, kp, "junk", RunQuiet, RunAgeBound)
SpecRun == InitRun /\ [][NextRun]_vars

\* The running plugin with an insert in every tick.  An energetic insert
\* leaves count at BEAT_COUNT, so the next call draws a new panel while it
\* still resolves the old one (lines 186-192).  As a rule the old panel holds
\* the source just inserted and the call merges; but when that source is a
\* beat's (11 ageings to pass 15.0) among two onset sources (19 ageings), and
\* quiet ticks follow, it is pruned first, the next call inserts on the old
\* panel again, count is forced again, and from then on every call resolves
\* a panel drawn one call earlier: onsets with energy at or above the
\* threshold insert once per tick as long as the draws are new panels.
\*   tick 0, 2: onset, insert     tick 1, 3: onset, merge and draw
\*   tick 4: beat, insert         ticks 5-14: quiet, the beat's source pruned
\*   tick 15 on: onset, insert and draw in every tick
\* The sources of ticks 0-3 are pruned by the end of tick 21.  At the end of
\* tick 14 + BusyFill the pool is the BusyFill onset sources of the ticks
\* since 15, oldest first, r is the panel of the last draw, not in the pool,
\* and count is BEAT_COUNT.  The draws of those ticks are taken from BusyFree:
\* not panel 0, where the source of tick 0 sits, and none of the panels the
\* draws of the ticks to come can give.
BusyDrawn == {PickPanel(k, BusyPanels) : k \in 1..(DrawDen - 1)}
BusyFree == PanelsIn(1, BusyPanels - 2, (1..(BusyPanels - 2)) \ BusyDrawn)

\* the pool of BusyFill onset sources, the j-th one aged BusyFill - j + done
\* times
BusyPool(done) ==
    [j \in 1..BusyFill |->
        [NewSource(Centroid(BusyFree[j]), getRGB(2, SubSeq(FullPalette, 1, 2)),
                   OnsetIntensity, OnsetSpeed, High)
         EXCEPT !.diffusion_age = OnsetSpeed * (BusyFill - j + done)]]

InitBusy ==
    /\ nPanels = BusyPanels
    /\ nColours = 2
    /\ sources = BusyPool(1)
    /\ r = BusyFree[BusyFill + 1]
    /\ count = BEAT_COUNT
    /\ maxBinIndexSum = 0
    /\ n = BusyFill + 10
    /\ frames = Frames(BusyPool(0), BusyPanels)
    /\ nFrames = BusyPanels
    /\ crashed = FALSE
    /\ calls = 0
    /\ last = [op |-> "getPluginFrame", kind |-> "insert", evicted |-> FALSE,
               pruned |-> 0, intensity |-> OnsetIntensity, speed |-> OnsetSpeed,
               energy |-> High, beat |-> FALSE, tempo |-> 0, avg |-> 0]

BusyInputs ==
    [bins : {Bins({})}, energy : {Low, High}, isBeat : {FALSE}, isOnset : BOOLEAN,
     tempo : {0}]
    \cup [bins : {Bins({})}, energy : {High}, isBeat : {TRUE}, isOnset : {TRUE},
          tempo : {120}]

NextBusy ==
    \E in \in BusyInputs :
        \E kp \in (IF Adds(in) THEN DrawsUsed(1..(DrawDen - 1)) ELSE {0}) :
            /\ (~Adds(in)) => in.energy = High
            /\ n >= BusyFill + 10
            /\ n < BusyFill + 10 + BusyTicks
            /\ GetPluginFrame(in.bins, in.energy, in.isBeat, in.isOnset, in.tempo,
                              2, kp, "junk", BusyFill + 10 + BusyTicks, AgeBound)
SpecBusy == InitBusy /\ [][NextBusy]_vars

----------------------------------------------------------------------------
(* Properties *)

InLayout(idx) == idx \in 0..(nPanels - 1)

\* the position the next addSource call resolves
SpawnPos == IF InLayout(r) THEN Centroid(r) ELSE JunkPos

Occupied == \E i \in 1..Len(sources) : PosEq(sources[i].pos, SpawnPos)

\* the source at position pos of pool srcs
At(srcs, pos) == srcs[CHOOSE i \in 1..Len(srcs) : PosEq(srcs[i].pos, pos)]

Sorted(srcs) ==
    \A i, j \in 1..Len(srcs) : i < j => srcs[i].intensity <= srcs[j].intensity

Added == last.op = "addSource" /\ last.kind \in {"insert", "merge"}

\* C1: in every reachable state the pool holds at most MAX_SOURCES (15)
\* sources, whatever addSource and diffuseSources calls led there.
C1_Capacity == nSources <= MAX_SOURCES

\* an addSource call made at capacity evicted a source and inserted its own
C1_Witness ==
    /\ last.op = "addSource" /\ last.kind = "insert" /\ last.evicted
    /\ nSources = MAX_SOURCES

\* C2: right after any addSource call, insert or merge, the pool is
\* non-decreasing by intensity.
C2_SortedAfterAdd == Added => Sorted(sources)

\* C3: an addSource call whose spawn position is already occupied removes no
\* source and creates none: same count, same entries in the same order, also
\* when the pool is at capacity.
C3_MergeKeepsEntries ==
    [][(last'.op = "addSource" /\ last'.kind # "crash" /\ Occupied)
        => /\ Len(sources') = Len(sources)
           /\ \A i \in 1..Len(sources) : sources'[i].pos = sources[i].pos]_vars

\* C4: a merging addSource call sets diffusion_age of the colliding source to
\* 0 and its intensity and speed to the arguments; its R, G, B, position and
\* energy stay as they were.
C4_MergeFrame ==
    [][(last'.op = "addSource" /\ last'.kind = "merge")
        => LET pre == At(sources, SpawnPos)
               post == At(sources', SpawnPos)
           IN  /\ post.diffusion_age = 0
               /\ post.intensity = last'.intensity
               /\ post.speed = last'.speed
               /\ post.R = pre.R /\ post.G = pre.G /\ post.B = pre.B
               /\ post.pos = pre.pos
               /\ post.energy = pre.energy]_vars

\* an energetic strong call has merged into a source that a weak call created
\* below the threshold: it is strong now, still not energetic, and its colour
\* is still the palette colour scaled by 0.7
C4_Witness ==
    /\ last.op = "addSource" /\ last.kind = "merge"
    /\ last.energy >= ENERGY_THRESHOLD /\ last.intensity = BeatIntensity
    /\ Len(sources) >= 2
    /\ \E i \in 1..Len(sources) :
          /\ sources[i].diffusion_age = 0
          /\ sources[i].intensity = BeatIntensity
          /\ sources[i].energy < ENERGY_THRESHOLD
          /\ sources[i].G = Scale(getRGB(2, paletteColours).G, OnsetIntensity)
          /\ sources[i].G # Scale(getRGB(2, paletteColours).G, BeatIntensity)

\* C5: when addSource evicts at capacity, the evicted source (sources[0]) is
\* no stronger than any other source of the pool at that moment, and an
\* inserting call leaves the pool with MAX_SOURCES entries.
C5_EvictsWeakest ==
    [][(last'.op = "addSource" /\ last'.evicted)
        => /\ \A i \in 1..Len(sources) : sources[1].intensity <= sources[i].intensity
           /\ last'.kind = "insert" => Len(sources') = MAX_SOURCES]_vars

\* C6: diffuseSources removes a source only if the pool holds more than
\* MIN_SIMULTANEOUS_COLOURS (2) sources at the call and the age of the source,
\* after the increment of this call, is above MAX_DIFFUSION_AGE (15.0); with
\* 2 sources or fewer nothing is removed.
C6_PruneOnlyExpiredAboveFloor ==
    [][last'.op = "diffuseSources"
        => /\ \A i \in 1..Len(sources) :
                (~\E j \in 1..Len(sources') : sources'[j].pos = sources[i].pos)
                => /\ Len(sources) > MIN_SIMULTANEOUS_COLOURS
                   /\ sources[i].diffusion_age + sources[i].speed > MAX_DIFFUSION_AGE
           /\ Len(sources) <= MIN_SIMULTANEOUS_COLOURS
                => Len(sources') = Len(sources)]_vars

\* a call has removed a source and kept one whose age is exactly 15.0
C6_Witness ==
    /\ last.op = "diffuseSources" /\ last.pruned > 0
    /\ \E i \in 1..Len(sources) : sources[i].diffusion_age = MAX_DIFFUSION_AGE

\* C7: a source that is in the pool before and after a diffuseSources call
\* has its age raised by its own speed and no other field changed.
C7_AgeBySpeed ==
    [][last'.op = "diffuseSources"
        => \A j \in 1..Len(sources') :
             \E i \in 1..Len(sources) :
                sources'[j] = [sources[i] EXCEPT
                                  !.diffusion_age = @ + sources[i].speed]]_vars

\* a call has aged two sources of different speeds, each by its own
C7_Witness ==
    /\ last.op = "diffuseSources"
    /\ \E i, j \in 1..Len(sources) :
          /\ sources[i].speed # sources[j].speed
          /\ sources[i].diffusion_age = 2 * sources[i].speed
          /\ sources[j].diffusion_age = sources[j].speed

\* C8: on a tick with a beat, the source inserted or merged gets
\* speed max(0.2, tempo / 50) for the tempo of that tick and intensity 1.0.
C8_BeatSpeedFromTempo ==
    [][(last'.op = "getPluginFrame" /\ last'.beat /\ last'.kind \in {"insert", "merge"})
        => \A j \in 1..Len(sources') :
             PosEq(sources'[j].pos, SpawnPos)
             => /\ sources'[j].speed = TempoSpeed(last'.tempo)
                /\ sources'[j].intensity = BeatIntensity]_vars

\* C9: the panel index addSource reads the spawn centroid from is always
\* within 0 .. nPanels-1.
C9_IndexInRange == InLayout(r)

\* C10: after an addSource call with energy >= ENERGY_THRESHOLD, insert or
\* merge, the counter is forced, so that the next call draws a fresh panel.
C10_EnergyForcesRotation ==
    (Added /\ last.energy >= ENERGY_THRESHOLD) => count + 1 >= BEAT_COUNT

\* C13: a diffuseSources call entered with at least MIN_SIMULTANEOUS_COLOURS
\* (2) sources returns with at least 2 sources, whatever the ages and speeds.
C13_FloorKept ==
    [][(last'.op = "diffuseSources" /\ Len(sources) >= MIN_SIMULTANEOUS_COLOURS)
        => Len(sources') >= MIN_SIMULTANEOUS_COLOURS]_vars

\* the sources of srcs that the ageing of one call leaves at 15.0 or below
Lasting(srcs) ==
    SelectSeq(srcs, LAMBDA s : s.diffusion_age + s.speed <= MAX_DIFFUSION_AGE)

\* C14: a diffuseSources call entered with more than 2 sources leaves no
\* source with diffusion_age > 15.0 (expired sources at adjacent indices
\* included) and keeps every source of age <= 15.0, in its relative order; a
\* source of speed 1.5 is kept with age exactly 15.0 by the call that finds it
\* at 13.5 (its 10th) and removed by the call that finds it at 15.0 (its 11th).
C14_PruneAllExpired ==
    [][(last'.op = "diffuseSources" /\ Len(sources) > MIN_SIMULTANEOUS_COLOURS)
        => /\ \A j \in 1..Len(sources') : sources'[j].diffusion_age <= MAX_DIFFUSION_AGE
           /\ Len(sources') = Len(Lasting(sources))
           /\ \A j \in 1..Len(sources') : sources'[j].pos = Lasting(sources)[j].pos
           /\ \A i \in 1..Len(sources) :
                sources[i].speed = BeatSpeed
                => /\ sources[i].diffusion_age = 9 * BeatSpeed
                        => \E j \in 1..Len(sources') :
                              /\ sources'[j].pos = sources[i].pos
                              /\ sources'[j].diffusion_age = MAX_DIFFUSION_AGE
                   /\ sources[i].diffusion_age = 10 * BeatSpeed
                        => \A j \in 1..Len(sources') :
                              sources'[j].pos # sources[i].pos]_vars

\* one call has removed two sources and kept a source of speed 1.5 at its
\* 10th call, with age exactly 15.0
C14_Witness ==
    /\ last.op = "diffuseSources" /\ last.pruned >= 2
    /\ \E i \in 1..Len(sources) :
          /\ sources[i].speed = BeatSpeed
          /\ sources[i].diffusion_age = MAX_DIFFUSION_AGE

\* C18: no two sources of the pool have the same (x, y) position, so the pool
\* never holds more sources than the layout has panels (spawn indices in
\* range).
C18_DistinctPositions ==
    /\ \A i, j \in 1..Len(sources) : i < j => ~PosEq(sources[i].pos, sources[j].pos)
    /\ nSources <= nPanels

\* a call has merged into sources[0] while the pool held a source on every
\* panel the rotation can reach
C18_Witness ==
    /\ last.op = "addSource" /\ last.kind = "merge"
    /\ nSources = nPanels - 1
    /\ sources[1].diffusion_age = 0
    /\ \E i \in 2..Len(sources) : sources[i].diffusion_age > 0

Ticked == last.op = "getPluginFrame" /\ last.kind # "crash"

\* C16: the running sum and count are reset to zero by every tick with a
\* beat and by no other tick (a tick without a beat, onset or not, adds one
\* to the count and a bin index to the sum); the average a beat takes is
\* (sum + bin) / (count + 1) over the ticks since the previous beat, this one
\* included, so the divisor is at least 1, and it lies in 0 .. 31.
C16_ResetOnBeatOnly ==
    [][(last'.op = "getPluginFrame" /\ last'.kind # "crash")
        => /\ n >= 0
           /\ IF last'.beat
              THEN /\ maxBinIndexSum' = 0 /\ n' = 0
                   /\ \E bin \in 0..(N_FFT_BINS - 1) :
                         last'.avg = (maxBinIndexSum + bin) \div (n + 1)
                   /\ last'.avg \in 0..(N_FFT_BINS - 1)
              ELSE /\ n' = n + 1
                   /\ maxBinIndexSum' - maxBinIndexSum \in 0..(N_FFT_BINS - 1)]_vars

\* a beat has averaged three ticks whose dominant bin was the last one: the
\* average is 31 and the accumulators are back to zero
C16_Witness ==
    /\ Ticked /\ last.beat
    /\ last.avg = N_FFT_BINS - 1
    /\ maxBinIndexSum = 0 /\ n = 0

\* the colour of palette stop 0 as a beat stores it
Stop0 ==
    [R |-> Scale(paletteColours[1].R, BeatIntensity),
     G |-> Scale(paletteColours[1].G, BeatIntensity),
     B |-> Scale(paletteColours[1].B, BeatIntensity)]

\* C17: with a palette of 2 colours or more, a source created by a tick with
\* a beat never has the colour of palette stop 0, whatever the average bin.
C17_BeatAvoidsStop0 ==
    [][(last'.op = "getPluginFrame" /\ last'.beat /\ last'.kind = "insert"
            /\ nColours >= 2)
        => \A j \in 1..Len(sources') :
             PosEq(sources'[j].pos, SpawnPos)
             => [R |-> sources'[j].R, G |-> sources'[j].G, B |-> sources'[j].B]
                    # Stop0]_vars

\* C15: with every call below the energy threshold, the spawn panel changes
\* once every BEAT_COUNT (8) calls: the counter runs 0 .. 7, a call that finds
\* it below 7 leaves r alone and the call that finds it at 7 resets it (and
\* draws); and of the calls of one block only the first can create a pool
\* entry: a call that follows a call of its own block merges.
C15_OneSpawnPerBlock ==
    [][last'.op = "addSource"
        => /\ count \in 0..(BEAT_COUNT - 1)
           /\ IF count + 1 < BEAT_COUNT
              THEN r' = r /\ count' = count + 1
              ELSE count' = 0
           /\ (last.op = "addSource" /\ count >= 1) => last'.kind = "merge"]_vars

\* the pool as it was before the ageing that made it srcs
Unaged(srcs) ==
    [j \in 1..Len(srcs) |-> [srcs[j] EXCEPT !.diffusion_age = @ - srcs[j].speed]]

\* C11: a tick writes one frame entry per panel, in layout order, with the
\* panel's id and transition time 1, and reports nPanels frames; every panel
\* is rendered from the pool as the spawn step left it, before the ageing
\* (ticks that prune nothing: the pool is then the present one, un-aged, and
\* a source spawned by the tick is in it with age 0).
C11_FramePerPanel ==
    Ticked
    => /\ nFrames = nPanels
       /\ Len(frames) = nPanels
       /\ \A i \in 1..nPanels :
             /\ frames[i].panelId = PanelId(i - 1)
             /\ frames[i].transTime = 1
       /\ last.pruned = 0
            => /\ \A i \in 1..nPanels :
                    LET rgb == renderPanel(Centroid(i - 1), Unaged(sources))
                    IN  /\ frames[i].r = rgb.R
                        /\ frames[i].g = rgb.G
                        /\ frames[i].b = rgb.B
               /\ last.kind \in {"insert", "merge"}
                    => \E j \in 1..Len(sources) :
                          /\ sources[j].diffusion_age = sources[j].speed
                          /\ sources[j].intensity = last.intensity

\* a tick has inserted a second source: the panels show both, the new one at
\* age 0 and the other at the age it had
C11_Witness ==
    /\ Ticked /\ last.kind = "insert" /\ Len(sources) = 2
    /\ \E j \in 1..2 : sources[j].diffusion_age > sources[j].speed
    /\ \E i \in 1..nPanels : frames[i].g > 0 /\ frames[i].r > 0

\* C12: every channel of every frame entry, which is what renderPanel
\* returned for that panel, lies in 0 .. 255, also over sources whose stored
\* channels pass 255 or whose age is past 15.0.
C12_ChannelsInRange ==
    Ticked
    => \A i \in 1..Len(frames) :
          /\ frames[i].r \in 0..255
          /\ frames[i].g \in 0..255
          /\ frames[i].b \in 0..255

\* a tick has rendered a pool holding a source with a stored channel above
\* 255 and a source that was past 15.0, and a panel came out at 255
C12_Witness ==
    /\ Ticked /\ last.pruned = 0
    /\ \E j \in 1..Len(sources) : sources[j].R > 255
    /\ \E j \in 1..Len(sources) :
          sources[j].diffusion_age - sources[j].speed > MAX_DIFFUSION_AGE
    /\ \E i \in 1..Len(frames) : frames[i].r = 255

C19_NeverFull ==
    /\ Len(sources) < MAX_SOURCES
    /\ ~(Ticked /\ last.evicted)

\* C19: under the frame driver the pool never holds more than MAX_SOURCES
\* (15) sources; it can hold 15, and a tick's addSource takes the capacity
\* branch exactly when the tick starts with 15.
C19_FullThenEvicts ==
    [][last'.op = "getPluginFrame" /\ last'.kind # "crash"
        => /\ Len(sources') + last'.pruned <= MAX_SOURCES
           /\ last'.evicted <=>
                (last'.kind # "none" /\ Len(sources) = MAX_SOURCES)]_vars

\* a tick that started with 15 sources has taken the capacity branch
C19_Witness ==
    /\ Ticked /\ last.evicted
    /\ last.kind = "insert"
    /\ Len(sources) = MAX_SOURCES

====
